---- MODULE Spec2Model ----
(***************************************************************************)
(* The R-GCN message-propagation engine of poem (models/unimodal/rgcn.py): *)
(* construction, the k-hop neighbourhood selector, message propagation,    *)
(* the cache of enriched embeddings and the scoring entry points.          *)
(*                                                                         *)
(* Tensors are integer valued (fixed point): a vector is a sequence of     *)
(* embedding_dim integers, a matrix over the nodes is a function from the  *)
(* node ids 0..num_entities-1 to vectors, a boolean mask is a function to  *)
(* BOOLEAN.  The graph's edge arrays are sequences indexed from 1.         *)
(***************************************************************************)
EXTENDS Integers, Sequences, FiniteSets, TLC

VARIABLES
    model,                \* the RGCN object: the fields set by __init__, or the error raised
    params,               \* version of the trainable parameters (entity embeddings, bases, att, biases)
    training,             \* nn.Module.training
    enriched_embeddings,  \* self.enriched_embeddings: None or the buffered matrix
    cache_params,         \* history: the parameter version enriched_embeddings was computed from
    last,                 \* history: the last operation and what it returned
    sel                   \* the frame of one _get_neighborhood call, stepped through its loop

vars == <<model, params, training, enriched_embeddings, cache_params, last, sel>>

----------------------------------------------------------------------------
(* Bounds                                                                  *)

MaxLayers == 2        \* num_layers ranges over 1..MaxLayers
MaxDim == 2           \* embedding_dim ranges over 1..MaxDim at construction
MaxBases == 3         \* num_bases_or_blocks ranges over 1..MaxBases (or None)
MaxVersion == 1       \* parameter updates are counted up to MaxVersion
MaxBatchLen == 2      \* a batch holds 1..MaxBatchLen triples
RandLevels == 2       \* torch.rand draws a value of the grid 0..RandLevels-1
MaxHops == 2          \* k of a stand-alone _get_neighborhood call ranges over 0..MaxHops

----------------------------------------------------------------------------
(* Values standing for Python's None                                       *)

None == <<>>          \* an absent tensor or batch
NoneNum == -1         \* an absent number (num_bases_or_blocks, a dropout rate)
NoneStr == "None"     \* an absent string or class (message_normalization, activation_cls)

----------------------------------------------------------------------------
(* Graph store: triples_factory.mapped_triples and its flags               *)

\* the 3-node ring 0 -rel0-> 1 -rel0-> 2 -rel1-> 0
RingTriples == << <<0, 0, 1>>, <<1, 0, 2>>, <<2, 1, 0>> >>

\* node 1 is the source of two edges
ForkTriples == << <<1, 0, 0>>, <<1, 1, 2>> >>

\* one edge between two nodes
PairTriples == << <<0, 0, 1>> >>

Graphs ==
    { [mapped_triples |-> RingTriples, num_entities |-> 3, num_relations |-> 2],
      [mapped_triples |-> ForkTriples, num_entities |-> 3, num_relations |-> 2],
      [mapped_triples |-> PairTriples, num_entities |-> 2, num_relations |-> 1] }

TriplesFactories ==
    { [mapped_triples |-> g.mapped_triples, num_entities |-> g.num_entities,
       num_relations |-> g.num_relations, create_inverse_triples |-> inv] :
        g \in Graphs, inv \in BOOLEAN }

Column(triples, c) == [e \in 1..Len(triples) |-> triples[e][c]]

Nodes(n) == 0..(n - 1)

----------------------------------------------------------------------------
(* Small arithmetic helpers                                                *)

RECURSIVE SumSeq(_)
SumSeq(s) == IF s = <<>> THEN 0 ELSE Head(s) + SumSeq(Tail(s))

\* float division rendered in fixed point: the quotient rounded toward zero
TruncDiv(a, b) == IF a >= 0 THEN a \div b ELSE -((-a) \div b)

RECURSIVE SqrtSearch(_, _, _)
SqrtSearch(n, lo, hi) ==
    IF lo >= hi THEN lo
    ELSE LET mid == (lo + hi + 1) \div 2
         IN IF mid * mid <= n THEN SqrtSearch(n, mid, hi) ELSE SqrtSearch(n, lo, mid - 1)

\* floor of the square root (of a 32-bit value: the root is below 46341)
ISqrt(n) == SqrtSearch(n, 0, IF n > 46340 THEN 46340 ELSE n)

SqrtScale == 10

\* v / sqrt(c) in fixed point
DivSqrt(v, c) == TruncDiv(v * SqrtScale, ISqrt(c * SqrtScale * SqrtScale))

Range(f) == {f[i] : i \in DOMAIN f}

\* the positions of s that satisfy keep, in order
RECURSIVE KeptPositions(_, _)
KeptPositions(keep, n) ==
    IF n = 0 THEN <<>>
    ELSE IF keep[n] THEN Append(KeptPositions(keep, n - 1), n) ELSE KeptPositions(keep, n - 1)

\* s[keep]: boolean-mask indexing of a sequence
MaskSelect(s, keep) == LET pos == KeptPositions(keep, Len(s)) IN [i \in 1..Len(pos) |-> s[pos[i]]]

----------------------------------------------------------------------------
(* Construction: RGCN.__init__ and init_empty_weights_                     *)

AllowedNormalizations == {NoneStr, "symmetric", "nonsymmetric"}

\* the arguments a caller passes to RGCN(...)
ConstructArgs ==
    [ triples_factory : TriplesFactories,
      embedding_dim : 1..MaxDim,
      num_bases_or_blocks : {NoneNum} \cup (1..MaxBases),
      num_layers : 1..MaxLayers,
      use_bias : BOOLEAN,
      use_batch_norm : BOOLEAN,
      activation_cls : {NoneStr, "ReLU"},
      sparse_messages_owa : {TRUE},
      edge_dropout : {NoneNum, 0},
      self_loop_dropout : {NoneNum, 0},
      message_normalization : AllowedNormalizations \cup {"mean"},
      decomposition : {"basis", "block", "tensor"},
      buffer_messages : {TRUE} ]

ValueError(msg) == [status |-> "ValueError", message |-> msg]

\* lines 135-136: a missing activation class is replaced by ReLU
DefaultActivation(activation_cls) == IF activation_cls = NoneStr THEN "ReLU" ELSE activation_cls

\* lines 165-167 and 171-173: the heuristics for a missing number of bases / blocks
EffectiveBases(decomposition, num_bases_or_blocks, num_relations) ==
    IF num_bases_or_blocks # NoneNum THEN num_bases_or_blocks
    ELSE IF decomposition = "basis" THEN num_relations \div 2 + 1 ELSE 2

\* line 168
TooManyBasesOffByOne(num_bases, num_relations) == num_bases >= num_relations
TooManyBases(num_bases, num_relations) == num_bases > num_relations

\* line 174
Indivisible(embedding_dim, num_blocks) == embedding_dim % num_blocks # 0

\* lines 233-291: the per-layer module lists created with the weights.  The tensors
\* themselves are given by the parameter version (see Bases, Att, Blocks, Biases).
init_empty_weights_(m) ==
    [m EXCEPT
        !.biases = IF m.biases = NoneNum /\ m.use_bias THEN m.num_layers ELSE m.biases,
        !.batch_norms = IF m.batch_norms = NoneNum /\ m.use_batch_norm THEN 1 ELSE m.batch_norms,
        !.activations = IF m.activation_cls # NoneStr /\ m.activations = None
                        THEN [i \in 1..m.num_layers |-> m.activation_cls]
                        ELSE m.activations]

\* lines 109-225
RGCN__init__(a) ==
    LET tf == a.triples_factory
        activation_cls == DefaultActivation(a.activation_cls)
        num_bases == EffectiveBases(a.decomposition, a.num_bases_or_blocks, tf.num_relations)
        use_bias == IF a.use_batch_norm THEN FALSE ELSE a.use_bias
    IN  IF tf.create_inverse_triples
        THEN ValueError("R-GCN handles edges in an undirected manner.")
        ELSE IF a.decomposition = "basis" /\ TooManyBases(num_bases, tf.num_relations)
        THEN ValueError("The number of bases should not exceed the number of relations.")
        ELSE IF a.decomposition = "block" /\ Indivisible(a.embedding_dim, num_bases)
        THEN ValueError("With block decomposition, the embedding dimension has to be divisible")
        ELSE IF a.decomposition \notin {"basis", "block"}
        THEN ValueError("Unknown decomposition")
        ELSE IF a.message_normalization \notin AllowedNormalizations
        THEN ValueError("Unknown message normalization")
        ELSE init_empty_weights_(
            [ status |-> "ok",
              num_entities |-> tf.num_entities,
              num_relations |-> tf.num_relations,
              embedding_dim |-> a.embedding_dim,
              decomposition |-> a.decomposition,
              num_bases |-> num_bases,
              buffer_messages |-> a.buffer_messages,
              message_normalization |-> a.message_normalization,
              edge_dropout |-> a.edge_dropout,
              self_loop_dropout |->
                  IF a.self_loop_dropout = NoneNum THEN a.edge_dropout ELSE a.self_loop_dropout,
              use_batch_norm |-> a.use_batch_norm,
              activation_cls |-> activation_cls,
              use_bias |-> use_bias,
              num_layers |-> a.num_layers,
              sparse_messages_owa |-> a.sparse_messages_owa,
              sources |-> Column(tf.mapped_triples, 1),
              targets |-> Column(tf.mapped_triples, 3),
              edge_types |-> Column(tf.mapped_triples, 2),
              biases |-> NoneNum,
              batch_norms |-> NoneNum,
              activations |-> None ])

NoCall == [op |-> "none"]
NoSel == [pc |-> "idle"]

\* RGCN(**a): the constructor call as one step
Construct(a) ==
    /\ model.status = "new"
    /\ model' = RGCN__init__(a)
    /\ last' = [op |-> "__init__", args |-> a]
    /\ UNCHANGED <<params, training, enriched_embeddings, cache_params, sel>>

InitConstruct ==
    /\ model = [status |-> "new"]
    /\ params = 0
    /\ training = TRUE
    /\ enriched_embeddings = None
    /\ cache_params = 0
    /\ last = NoCall
    /\ sel = NoSel

NextConstruct == model.status = "new" /\ \E a \in ConstructArgs : Construct(a)

SpecConstruct == InitConstruct /\ [][NextConstruct]_vars

----------------------------------------------------------------------------
(* Neighborhood Selector: _get_neighborhood                                *)

\* node_mask[start_nodes] = True on a zero mask (lines 35-38)
StartMask(start_nodes, num_nodes) == [n \in Nodes(num_nodes) |-> n \in Range(start_nodes)]

\* An index assignment t[idx] = v writes, for a node that occurs several times in idx,
\* the value of one of its occurrences; which one is not defined.  A winner gives for
\* every node of idx the occurrence whose value is written (0 for a node not in idx).
Winners(idx, num_nodes) ==
    { w \in [Nodes(num_nodes) -> 0..Len(idx)] :
        \A n \in Nodes(num_nodes) :
            IF n \in Range(idx) THEN w[n] \in DOMAIN idx /\ idx[w[n]] = n ELSE w[n] = 0 }

\* node_mask[idx] |= node_mask[other] (lines 43 and 46): the values
\* node_mask[idx] | node_mask[other] are computed from the old mask and then assigned
IndexPutAssign(node_mask, idx, other, w) ==
    [n \in DOMAIN node_mask |->
        IF n \in Range(idx) THEN node_mask[other[w[n]]] ELSE node_mask[n]]
IndexPutOr(node_mask, idx, other, w) ==
    [n \in DOMAIN node_mask |->
        IF n \in Range(idx) THEN node_mask[idx[w[n]]] \/ node_mask[other[w[n]]] ELSE node_mask[n]]

\* one iteration of the loop of lines 41-46; win = <<winner of line 43, winner of line 46>>
Hop(node_mask, sources, targets, undirected, win) ==
    LET back == IndexPutOr(node_mask, sources, targets, win[1])
    IN IF undirected THEN IndexPutOr(back, targets, sources, win[2]) ELSE back

RECURSIVE Hops(_, _, _, _, _, _)
Hops(node_mask, sources, targets, k, undirected, wins) ==
    IF k = 0 THEN node_mask
    ELSE Hop(Hops(node_mask, sources, targets, k - 1, undirected, wins),
             sources, targets, undirected, wins[k])

\* lines 48-52
EdgeMask(node_mask, sources, targets, undirected) ==
    [e \in 1..Len(targets) |->
        node_mask[targets[e]] \/ (undirected /\ node_mask[sources[e]])]

WinnerSeqs(sources, targets, k, num_nodes) ==
    [1..k -> Winners(sources, num_nodes) \X Winners(targets, num_nodes)]

\* lines 26-54; wins resolves the k (2k if undirected) index assignments
_get_neighborhood(start_nodes, sources, targets, k, num_nodes, undirected, wins) ==
    EdgeMask(Hops(StartMask(start_nodes, num_nodes), sources, targets, k, undirected, wins),
             sources, targets, undirected)

(* The same function as a process, one step per statement of its loop, to observe the
   node mask between the iterations. *)

StartNodeChoices(num_nodes) ==
    {<<a>> : a \in Nodes(num_nodes)} \cup {<<a, b>> : a, b \in Nodes(num_nodes)}

\* the call: lines 35-38
SelCall(tf, start_nodes, k, undirected) ==
    /\ sel.pc = "idle"
    /\ sel' = [ pc |-> "loop",
                start_nodes |-> start_nodes,
                sources |-> Column(tf.mapped_triples, 1),
                targets |-> Column(tf.mapped_triples, 3),
                k |-> k,
                num_nodes |-> tf.num_entities,
                undirected |-> undirected,
                i |-> 0,
                node_mask |-> StartMask(start_nodes, tf.num_entities),
                \* history: the edge mask a call with k = 0, 1, ... would return here
                by_hops |-> << EdgeMask(StartMask(start_nodes, tf.num_entities),
                                        Column(tf.mapped_triples, 1),
                                        Column(tf.mapped_triples, 3), undirected) >>,
                \* history: the node mask at the start of the current iteration
                at_start |-> StartMask(start_nodes, tf.num_entities),
                edge_mask |-> None ]
    /\ UNCHANGED <<model, params, training, enriched_embeddings, cache_params, last>>

SelIterationDone(s, node_mask) ==
    [s EXCEPT !.pc = "loop", !.i = s.i + 1, !.node_mask = node_mask, !.at_start = node_mask,
              !.by_hops = Append(s.by_hops, EdgeMask(node_mask, s.sources, s.targets, s.undirected))]

\* line 43
SelBackward(w) ==
    /\ sel.pc = "loop"
    /\ sel.i < sel.k
    /\ LET node_mask == IndexPutOr(sel.node_mask, sel.sources, sel.targets, w)
       IN sel' = IF sel.undirected
                 THEN [sel EXCEPT !.pc = "forward", !.node_mask = node_mask]
                 ELSE SelIterationDone(sel, node_mask)
    /\ UNCHANGED <<model, params, training, enriched_embeddings, cache_params, last>>

\* lines 45-46
SelForward(w) ==
    /\ sel.pc = "forward"
    /\ sel' = SelIterationDone(sel, IndexPutOr(sel.node_mask, sel.targets, sel.sources, w))
    /\ UNCHANGED <<model, params, training, enriched_embeddings, cache_params, last>>

\* lines 48-54
SelReturn ==
    /\ sel.pc = "loop"
    /\ sel.i = sel.k
    /\ sel' = [sel EXCEPT !.pc = "done",
                          !.edge_mask = EdgeMask(sel.node_mask, sel.sources, sel.targets, sel.undirected)]
    /\ UNCHANGED <<model, params, training, enriched_embeddings, cache_params, last>>

InitSel == InitConstruct

NextSel ==
    \/ \E tf \in TriplesFactories, k \in 0..MaxHops, undirected \in BOOLEAN :
         \E start_nodes \in StartNodeChoices(tf.num_entities) :
            SelCall(tf, start_nodes, k, undirected)
    \/ sel.pc = "loop" /\ \E w \in Winners(sel.sources, sel.num_nodes) : SelBackward(w)
    \/ sel.pc = "forward" /\ \E w \in Winners(sel.targets, sel.num_nodes) : SelForward(w)
    \/ SelReturn

SpecSel == InitSel /\ [][NextSel]_vars

----------------------------------------------------------------------------
(* Trainable parameters.  A parameter version stands for one concrete value of every
   parameter tensor; post_parameter_update moves to the next version.            *)

\* self._entity_embeddings.weight, shape (num_entities, embedding_dim)
EntityWeight(v, num_entities, d) ==
    [n \in Nodes(num_entities) |-> [j \in 1..d |-> ((2 * n + 3 * j + v) % 5) - 2]]

\* self.bases[i_layer][b] in basis mode, shape (embedding_dim, embedding_dim)
Bases(v, i_layer, b, d) ==
    [i \in 1..d |-> [j \in 1..d |-> ((v + i_layer + b + 2 * i + j) % 3) - 1]]

\* self.att[i_layer][r, b], r = num_relations being the self-loop
Att(v, i_layer, r, b) == 1 + ((v + i_layer + r + b) % 3)

\* self.bases[i_layer][r, b] in block mode, shape (block_size, block_size)
Blocks(v, i_layer, r, b, block_size) ==
    [i \in 1..block_size |-> [j \in 1..block_size |-> ((v + i_layer + r + 2 * b + i + 2 * j) % 3) - 1]]

\* self.biases[i_layer]: zeros at initialization
Biases(v, i_layer, d) == [j \in 1..d |-> v * j]

----------------------------------------------------------------------------
(* Vector helpers                                                           *)

VecZero(d) == [j \in 1..d |-> 0]
VecAdd(a, b) == [j \in DOMAIN a |-> a[j] + b[j]]
\* v @ W
VecMat(v, W) == [j \in DOMAIN v |-> SumSeq([i \in DOMAIN v |-> v[i] * W[i][j]])]

RECURSIVE VecSumSeq(_, _)
VecSumSeq(s, d) == IF s = <<>> THEN VecZero(d) ELSE VecAdd(Head(s), VecSumSeq(Tail(s), d))

\* number of occurrences of a in sequence s
CountOthers(s, a) == Cardinality({k \in DOMAIN s : s[k] = a}) - 1
Count(s, a) == Cardinality({k \in DOMAIN s : s[k] = a})

----------------------------------------------------------------------------
(* Relation Weight Generator: _get_relation_weights (lines 444-470)        *)

BlockWeights(m, v, i_layer, r) ==
    LET d == m.embedding_dim
        block_size == d \div m.num_bases
    IN [i \in 1..d |-> [j \in 1..d |->
          LET bi == (i - 1) \div block_size
              bj == (j - 1) \div block_size
          IN IF bi = bj
             THEN Blocks(v, i_layer, r, bi, block_size)[i - bi * block_size][j - bj * block_size]
             ELSE 0]]

BasisWeights(m, v, i_layer, r) ==
    LET d == m.embedding_dim
    IN [i \in 1..d |-> [j \in 1..d |->
          SumSeq([b \in 1..m.num_bases |-> Att(v, i_layer, r, b) * Bases(v, i_layer, b, d)[i][j]])]]

_get_relation_weights(m, v, i_layer, r) ==
    IF m.decomposition = "block" THEN BlockWeights(m, v, i_layer, r) ELSE BasisWeights(m, v, i_layer, r)

----------------------------------------------------------------------------
(* Message Propagation Engine: the layer loop of _enrich_embeddings        *)

\* lines 370-374: the edges of relation r, restricted to the edge mask of the batch
RelationMaskNoFilter(edge_types, edge_mask, r) ==
    [e \in 1..Len(edge_types) |-> IF edge_mask = None THEN edge_types[e] = r ELSE edge_mask[e]]
RelationMask(edge_types, edge_mask, r) ==
    [e \in 1..Len(edge_types) |-> edge_types[e] = r /\ (edge_mask = None \/ edge_mask[e])]

\* lines 396-410: one message, divided by the degrees of its endpoints over the
\* duplicated edge set (S, T) of the relation
Normalize(m, msg, S, T, k) ==
    IF m.message_normalization = "nonsymmetric"
    THEN [j \in DOMAIN msg |-> TruncDiv(msg[j], Count(T, T[k]))]
    ELSE IF m.message_normalization = "symmetric"
    THEN [j \in DOMAIN msg |-> DivSqrt(DivSqrt(msg[j], Count(T, T[k])), Count(S, S[k]))]
    ELSE msg

\* lines 399-408: the counts cnt[inv] that the messages of relation r are divided by (or
\* by whose square roots): in-degree of the target and out-degree of the source of each
\* message over the duplicated edge set
Divisors(sources, targets, edge_types, edge_mask, r) ==
    LET mask == RelationMask(edge_types, edge_mask, r)
        sources_r == MaskSelect(sources, mask)
        targets_r == MaskSelect(targets, mask)
        S == sources_r \o targets_r
        T == targets_r \o sources_r
    IN {Count(T, T[k]) : k \in 1..Len(T)} \cup {Count(S, S[k]) : k \in 1..Len(S)}

\* lines 376-413: what relation r adds to new_x
RelationMessages(m, v, x, i_layer, r, sources, targets, edge_types, edge_mask) ==
    LET mask == RelationMask(edge_types, edge_mask, r)
        sources_r == MaskSelect(sources, mask)
        targets_r == MaskSelect(targets, mask)
        S == sources_r \o targets_r
        T == targets_r \o sources_r
        w == _get_relation_weights(m, v, i_layer, r)
        m_r == [k \in 1..Len(S) |-> Normalize(m, VecMat(x[S[k]], w), S, T, k)]
    IN [n \in DOMAIN x |->
          VecSumSeq(MaskSelect(m_r, [k \in 1..Len(T) |-> T[k] = n]), m.embedding_dim)]

RECURSIVE AllMessages(_, _, _, _, _, _, _, _, _)
AllMessages(m, v, x, i_layer, num_r, sources, targets, edge_types, edge_mask) ==
    IF num_r = 0 THEN [n \in DOMAIN x |-> VecZero(m.embedding_dim)]
    ELSE LET rest == AllMessages(m, v, x, i_layer, num_r - 1, sources, targets, edge_types, edge_mask)
             this == RelationMessages(m, v, x, i_layer, num_r - 1, sources, targets, edge_types, edge_mask)
         IN [n \in DOMAIN x |-> VecAdd(rest[n], this[n])]

\* lines 415-420: the self-loop weight is applied to the accumulator new_x
SelfLoop(m, v, new_x, i_layer, node_keep_mask) ==
    LET self_w == _get_relation_weights(m, v, i_layer, m.num_relations)
    IN [n \in DOMAIN new_x |->
          IF node_keep_mask = None \/ node_keep_mask[n]
          THEN VecAdd(new_x[n], VecMat(new_x[n], self_w))
          ELSE new_x[n]]

\* nn.BatchNorm1d (line 430) with unit weight and zero bias: batch statistics in training
\* mode; in evaluation mode the running statistics, held at their initial mean 0, variance 1
BatchNorm1d(new_x, d, is_training) ==
    IF ~is_training THEN new_x
    ELSE LET ns == DOMAIN new_x
             N == Cardinality(ns)
             Sum(j) == SumSeq([k \in 1..N |-> new_x[k - 1][j]])
             SumSq(j) == SumSeq([k \in 1..N |-> new_x[k - 1][j] * new_x[k - 1][j]])
             Var(j) == N * SumSq(j) - Sum(j) * Sum(j)
         IN [n \in ns |-> [j \in 1..d |->
               IF Var(j) = 0 THEN 0
               ELSE TruncDiv((N * new_x[n][j] - Sum(j)) * SqrtScale,
                             ISqrt(Var(j) * SqrtScale * SqrtScale))]]

\* nn.ReLU
ReLU(new_x) ==
    [n \in DOMAIN new_x |-> [j \in DOMAIN new_x[n] |-> IF new_x[n][j] > 0 THEN new_x[n][j] ELSE 0]]

\* lines 432-435
Activate(m, new_x, i_layer) ==
    IF m.activations # None THEN ReLU(new_x) ELSE new_x

\* lines 422-425
AddBias(m, v, new_x, i_layer) ==
    IF m.use_bias
    THEN [n \in DOMAIN new_x |-> VecAdd(new_x[n], Biases(v, i_layer, m.embedding_dim))]
    ELSE new_x

\* line 429: self.batch_norms[i] of a list of m.batch_norms modules
BatchNormIndexError(m, i_layer) == m.use_batch_norm /\ i_layer >= m.batch_norms

\* lines 363-437: layers i_layer .. num_layers-1 applied to x.  layers counts the layers
\* that were started.
RECURSIVE Layers(_, _, _, _, _, _, _, _, _, _)
Layers(m, v, is_training, x, i_layer, sources, targets, edge_types, edge_mask, node_keep_mask) ==
    IF i_layer = m.num_layers THEN [status |-> "ok", x |-> x, layers |-> i_layer]
    ELSE IF BatchNormIndexError(m, i_layer) THEN [status |-> "IndexError", x |-> None, layers |-> i_layer + 1]
    ELSE LET messages == AllMessages(m, v, x, i_layer, m.num_relations, sources, targets, edge_types, edge_mask)
             looped == SelfLoop(m, v, messages, i_layer, node_keep_mask)
             biased == AddBias(m, v, looped, i_layer)
             normed == IF m.use_batch_norm THEN BatchNorm1d(biased, m.embedding_dim, is_training) ELSE biased
             new_x == Activate(m, normed, i_layer)
         IN Layers(m, v, is_training, new_x, i_layer + 1, sources, targets, edge_types, edge_mask, node_keep_mask)

----------------------------------------------------------------------------
(* _enrich_embeddings (lines 315-442)                                      *)

\* line 323
UseBufferNever(batch, enriched) == FALSE
UseBuffer(batch, enriched) == batch = None /\ enriched # None

\* line 439
StoreBufferAlways(m, batch) == m.buffer_messages
StoreBuffer(m, batch) == batch = None /\ m.buffer_messages

\* lines 336 and 345: torch.rand(...) > rate
KeepMask(draw, rate) == [e \in DOMAIN draw |-> draw[e] > rate]

\* line 351: torch.cat([batch[:, 0], batch[:, 2]])
StartNodes(batch) == Column(batch, 1) \o Column(batch, 3)

EdgeDropoutActive(m, is_training) == is_training /\ m.edge_dropout # NoneNum
SelfLoopDropoutActive(m, is_training) == is_training /\ m.self_loop_dropout # NoneNum

\* the random values and index-assignment winners one call can meet
EdgeDraws(m, is_training) ==
    IF EdgeDropoutActive(m, is_training)
    THEN [1..Len(m.sources) -> 0..(RandLevels - 1)]
    ELSE {[e \in 1..Len(m.sources) |-> 0]}

NodeDraws(m, is_training) ==
    IF SelfLoopDropoutActive(m, is_training)
    THEN [Nodes(m.num_entities) -> 0..(RandLevels - 1)]
    ELSE {[n \in Nodes(m.num_entities) |-> 0]}

\* lines 333-341: the edge arrays after edge dropout
KeptEdges(m, is_training, edge_draw) ==
    IF EdgeDropoutActive(m, is_training)
    THEN LET edge_keep_mask == KeepMask(edge_draw, m.edge_dropout)
         IN [sources |-> MaskSelect(m.sources, edge_keep_mask),
             targets |-> MaskSelect(m.targets, edge_keep_mask),
             edge_types |-> MaskSelect(m.edge_types, edge_keep_mask)]
    ELSE [sources |-> m.sources, targets |-> m.targets, edge_types |-> m.edge_types]

CallWinners(m, is_training, batch, edge_draw) ==
    IF batch = None THEN {<<>>}
    ELSE LET kept == KeptEdges(m, is_training, edge_draw)
         IN WinnerSeqs(kept.sources, kept.targets, m.num_layers, m.num_entities)

\* The call.  The result record holds what is returned (status, x), the new value of
\* self.enriched_embeddings (buffer), and what the call did: hit (answered from the
\* buffer), layers (layers started), drew (a dropout mask was drawn), the edge arrays
\* after dropout, the self-loop keep mask, the start nodes and the edge mask.
_enrich_embeddings(m, v, is_training, enriched, enriched_v, batch, edge_draw, node_draw, wins) ==
    IF UseBuffer(batch, enriched)
    THEN [status |-> "ok", x |-> enriched, version |-> enriched_v,
          buffer |-> enriched, buffer_version |-> enriched_v,
          hit |-> TRUE, layers |-> 0, drew |-> FALSE,
          sources |-> None, targets |-> None, edge_types |-> None, node_keep_mask |-> None,
          start_nodes |-> None, edge_mask |-> None]
    ELSE LET x == EntityWeight(v, m.num_entities, m.embedding_dim)
             kept == KeptEdges(m, is_training, edge_draw)
             node_keep_mask == IF SelfLoopDropoutActive(m, is_training)
                               THEN KeepMask(node_draw, m.self_loop_dropout)
                               ELSE None
             start_nodes == IF batch # None THEN StartNodes(batch) ELSE None
             edge_mask == IF batch # None
                          THEN _get_neighborhood(start_nodes, kept.sources, kept.targets,
                                                 m.num_layers, m.num_entities, TRUE, wins)
                          ELSE None
             out == Layers(m, v, is_training, x, 0, kept.sources, kept.targets, kept.edge_types,
                           edge_mask, node_keep_mask)
             store == out.status = "ok" /\ StoreBuffer(m, batch)
         IN [status |-> out.status, x |-> out.x, version |-> v,
             buffer |-> IF store THEN out.x ELSE enriched,
             buffer_version |-> IF store THEN v ELSE enriched_v,
             hit |-> FALSE, layers |-> out.layers,
             drew |-> EdgeDropoutActive(m, is_training) \/ SelfLoopDropoutActive(m, is_training),
             sources |-> kept.sources, targets |-> kept.targets, edge_types |-> kept.edge_types,
             node_keep_mask |-> node_keep_mask,
             start_nodes |-> start_nodes, edge_mask |-> edge_mask]

----------------------------------------------------------------------------
(* The engine's operations                                                  *)

\* the triples that are scored: the graph's own triples and one triple that is not an edge
QueryTriples(m) ==
    [e \in 1..Len(m.sources) |-> <<m.sources[e], m.edge_types[e], m.targets[e]>>] \o << <<0, 0, 0>> >>

\* a batch: 1..MaxBatchLen consecutive query triples
BatchesOf(m) ==
    { SubSeq(QueryTriples(m), i, j) : i \in 1..Len(QueryTriples(m)), j \in 1..Len(QueryTriples(m)) }
        \cap UNION { [1..n -> Range(QueryTriples(m))] : n \in 1..MaxBatchLen }

\* the effect of one operation op that calls _enrich_embeddings(batch); res is the
\* result of the call
Enriching(op, batch) ==
    /\ model.status = "ok"
    /\ \E edge_draw \in EdgeDraws(model, training), node_draw \in NodeDraws(model, training) :
         \E wins \in CallWinners(model, training, batch, edge_draw) :
            \E res \in {_enrich_embeddings(model, params, training, enriched_embeddings, cache_params,
                                          batch, edge_draw, node_draw, wins)} :
               /\ enriched_embeddings' = res.buffer
               /\ cache_params' = res.buffer_version
               /\ last' = [ op |-> op, batch |-> batch,
                            status |-> res.status, x |-> res.x, version |-> res.version,
                            hit |-> res.hit, layers |-> res.layers, drew |-> res.drew,
                            sources |-> res.sources, targets |-> res.targets,
                            edge_types |-> res.edge_types,
                            node_keep_mask |-> res.node_keep_mask,
                            start_nodes |-> res.start_nodes, edge_mask |-> res.edge_mask ]
    /\ UNCHANGED <<model, params, training, sel>>

\* lines 472-481
score_hrt(hrt_batch) ==
    Enriching("score_hrt", IF model.sparse_messages_owa THEN hrt_batch ELSE None)

\* lines 483-491; the batch only selects rows of the enriched matrix
score_t == Enriching("score_t", None)

\* lines 493-501
score_h == Enriching("score_h", None)

\* lines 227-231, called after the optimizer has changed the parameters
post_parameter_update_keep(enriched) == enriched
post_parameter_update(enriched) == None

ParameterUpdate ==
    /\ model.status = "ok"
    /\ params < MaxVersion
    /\ params' = params + 1
    /\ enriched_embeddings' = post_parameter_update(enriched_embeddings)
    /\ last' = [op |-> "post_parameter_update"]
    /\ UNCHANGED <<model, training, cache_params, sel>>

\* nn.Module.train(mode) / eval(): the flag read at lines 334 and 344
SetTraining(mode) ==
    /\ model.status = "ok"
    /\ training # mode
    /\ training' = mode
    /\ last' = [op |-> "train"]
    /\ UNCHANGED <<model, params, enriched_embeddings, cache_params, sel>>

----------------------------------------------------------------------------
(* The engine after construction                                           *)

\* dropout rates on the grid of the drawn values: 0 is the rate 0.0, 1 the rate 1/RandLevels
DropoutRates == {0, 1}

\* the configurations explored: the default one (ring graph, one layer, basis decomposition
\* with one basis, nothing else enabled) with at most one option changed, and a few
\* combinations of two or three changes
EngineArgSpace ==
    [ triples_factory : {tf \in TriplesFactories : ~tf.create_inverse_triples},
      embedding_dim : {MaxDim},
      num_bases_or_blocks : 1..MaxBases,
      num_layers : 1..MaxLayers,
      use_bias : BOOLEAN,
      use_batch_norm : BOOLEAN,
      activation_cls : {NoneStr, "ReLU"},
      sparse_messages_owa : BOOLEAN,
      edge_dropout : {NoneNum} \cup DropoutRates,
      self_loop_dropout : {NoneNum} \cup DropoutRates,
      message_normalization : AllowedNormalizations,
      decomposition : {"basis", "block"},
      buffer_messages : BOOLEAN ]

Changed(a) ==
    << a.triples_factory.mapped_triples # RingTriples,
       a.num_layers # 1,
       <<a.decomposition, a.num_bases_or_blocks>> # <<"basis", 1>>,
       a.use_bias,
       a.use_batch_norm,
       a.activation_cls # NoneStr,
       ~a.sparse_messages_owa,
       a.edge_dropout # NoneNum,
       a.self_loop_dropout # NoneNum,
       a.message_normalization # NoneStr,
       ~a.buffer_messages >>

NumChanged(a) == Cardinality({i \in DOMAIN Changed(a) : Changed(a)[i]})

\* dropout is explored on the smallest graph
EngineArgs ==
    { a \in EngineArgSpace :
        LET c == Changed(a)
            pair == a.triples_factory.mapped_triples = PairTriples
            fork == a.triples_factory.mapped_triples = ForkTriples
        IN \/ NumChanged(a) <= 1 /\ ~c[8] /\ ~c[9]
           \/ NumChanged(a) = 2 /\ fork /\ c[2]
           \/ NumChanged(a) = 2 /\ c[2] /\ c[5]
           \/ NumChanged(a) = 2 /\ pair /\ c[9]
           \/ NumChanged(a) = 2 /\ fork /\ c[10]
           \/ NumChanged(a) = 3 /\ pair /\ c[8] /\ c[10] /\ a.edge_dropout = 0
           \/ NumChanged(a) = 3 /\ pair /\ c[8] /\ c[9] /\ a.edge_dropout = a.self_loop_dropout }

Init ==
    /\ model \in {m \in {RGCN__init__(a) : a \in EngineArgs} : m.status = "ok"}
    /\ params = 0
    /\ training = TRUE
    /\ enriched_embeddings = None
    /\ cache_params = 0
    /\ last = NoCall
    /\ sel = NoSel

Next ==
    \/ \E hrt_batch \in BatchesOf(model) : score_hrt(hrt_batch)
    \/ score_t
    \/ score_h
    \/ ParameterUpdate
    \/ \E mode \in BOOLEAN : SetTraining(mode)

Spec == Init /\ [][Next]_vars

----------------------------------------------------------------------------
(* Properties                                                               *)

EnrichOps == {"score_hrt", "score_t", "score_h"}

\* l records a call of _enrich_embeddings
IsEnrich(l) == l.op \in EnrichOps

\* l records a full-graph call that returned
FullOk(l) == IsEnrich(l) /\ l.batch = None /\ l.status = "ok"

\* C1: the buffered matrix is always one computed from the current parameters: a
\* full-graph call never returns a matrix computed from an older parameter version, and
\* after post_parameter_update the buffer is empty (so that the next full-graph call
\* recomputes).
C1_CacheFresh ==
    /\ model.status = "ok" /\ enriched_embeddings # None => cache_params = params
    /\ last.op = "post_parameter_update" => enriched_embeddings = None
    /\ FullOk(last) => last.version = params

\* a full-graph call answered from the buffer after a parameter update had emptied it
C1_Witness ==
    /\ params > 0
    /\ FullOk(last)
    /\ last.hit
    /\ last.x = enriched_embeddings

\* C2: with buffering enabled, a full-graph call that directly follows a full-graph call
\* returns the same matrix and propagates nothing: no layer runs, no dropout mask is drawn.
C2_CacheHit ==
    [][ (model.buffer_messages /\ FullOk(last) /\ IsEnrich(last') /\ last'.batch = None)
            => /\ last'.status = "ok"
               /\ last'.x = last.x
               /\ last'.hit
               /\ last'.layers = 0
               /\ ~last'.drew ]_vars

\* a second full-graph call in training mode with dropout configured, answered from the buffer
C2_Witness ==
    /\ FullOk(last)
    /\ last.hit
    /\ training
    /\ model.self_loop_dropout # NoneNum

\* C3: a batched call leaves the buffer as it was and is never answered from it, and the
\* buffer only becomes non-empty by a full-graph call with buffering enabled.
C3_BatchedLeavesCache ==
    [][ /\ (IsEnrich(last') /\ last'.batch # None)
            => /\ enriched_embeddings' = enriched_embeddings
               /\ ~last'.hit
               /\ last'.layers >= 1
        /\ (enriched_embeddings = None /\ enriched_embeddings' # None)
            => /\ IsEnrich(last')
               /\ last'.batch = None
               /\ model.buffer_messages ]_vars

\* a batched call that returned while the buffer was filled
C3_Witness ==
    /\ IsEnrich(last)
    /\ last.batch # None
    /\ last.status = "ok"
    /\ enriched_embeddings # None
    /\ last.x # enriched_embeddings

\* the nodes within r undirected hops of the nodes of S
RECURSIVE Ball(_, _, _, _)
Ball(S, sources, targets, r) ==
    IF r = 0 THEN S
    ELSE LET B == Ball(S, sources, targets, r - 1)
         IN B \cup {targets[e] : e \in {e \in DOMAIN sources : sources[e] \in B}}
              \cup {sources[e] : e \in {e \in DOMAIN targets : targets[e] \in B}}

\* C4: the edge mask of a batched call with num_layers = L holds every edge that has an
\* endpoint within L-1 undirected hops of a query node.
C4_NeverUnderSelects ==
    (IsEnrich(last) /\ last.batch # None)
        => \A e \in DOMAIN last.sources :
              ( {last.sources[e], last.targets[e]}
                    \cap Ball(Range(last.start_nodes), last.sources, last.targets, model.num_layers - 1) # {} )
                  => last.edge_mask[e]

\* the output of a full-graph propagation without dropout under the current parameters
FullGraphOutput ==
    Layers(model, params, training, EntityWeight(params, model.num_entities, model.embedding_dim), 0,
           model.sources, model.targets, model.edge_types, None, None)

DropoutInactive == ~EdgeDropoutActive(model, training) /\ ~SelfLoopDropoutActive(model, training)

CoversEveryNode(batch) == Range(StartNodes(batch)) = Nodes(model.num_entities)

\* C5: with dropout inactive, a batched call whose heads and tails cover every node
\* selects every edge and returns what the full-graph propagation returns.
C5_CoveringBatchIsFullGraph ==
    (IsEnrich(last) /\ last.batch # None /\ CoversEveryNode(last.batch) /\ DropoutInactive)
        => /\ \A e \in DOMAIN last.edge_mask : last.edge_mask[e]
           /\ last.status = FullGraphOutput.status
           /\ last.x = FullGraphOutput.x

\* a covering batch on a graph with two relation types and two layers, which returned
C5_Witness ==
    /\ IsEnrich(last)
    /\ last.batch # None
    /\ CoversEveryNode(last.batch)
    /\ DropoutInactive
    /\ last.status = "ok"
    /\ model.num_layers = 2
    /\ model.num_relations = 2

\* the configuration of the end-to-end scenario: ring graph, one layer, one basis,
\* no normalization, no dropout, no bias, no batch normalization
RingScenario ==
    /\ model.status = "ok"
    /\ model.sources = Column(RingTriples, 1)
    /\ model.targets = Column(RingTriples, 3)
    /\ model.edge_types = Column(RingTriples, 2)
    /\ model.num_layers = 1
    /\ model.decomposition = "basis"
    /\ model.num_bases = 1
    /\ model.message_normalization = NoneStr
    /\ model.edge_dropout = NoneNum
    /\ model.self_loop_dropout = NoneNum
    /\ ~model.use_bias
    /\ ~model.use_batch_norm

\* C6: in the end-to-end scenario the enriched embedding of node 1 is
\* self_loop(x1) + rel0_weight * x0.
C6_NodeOneEmbedding ==
    (RingScenario /\ FullOk(last))
        => LET x == EntityWeight(last.version, model.num_entities, model.embedding_dim)
               rel0 == _get_relation_weights(model, last.version, 0, 0)
               self_w == _get_relation_weights(model, last.version, 0, model.num_relations)
           IN last.x[1] = VecAdd(VecMat(x[1], self_w), VecMat(x[0], rel0))

\* the arguments of the constructor call, and what the claim about construction expects
ClaimedConfigurationError(a) ==
    LET num_bases == EffectiveBases(a.decomposition, a.num_bases_or_blocks, a.triples_factory.num_relations)
    IN \/ a.decomposition \notin {"basis", "block"}
       \/ a.decomposition = "block" /\ a.embedding_dim % num_bases # 0
       \/ a.decomposition = "basis" /\ num_bases > a.triples_factory.num_relations
       \/ a.message_normalization \notin {NoneStr, "nonsymmetric", "symmetric"}
       \/ a.triples_factory.create_inverse_triples

C8_RateZeroDeterministic ==
    ( /\ IsEnrich(last)
      /\ ~last.hit
      /\ model.edge_dropout \in {NoneNum, 0}
      /\ model.self_loop_dropout \in {NoneNum, 0} )
        => /\ last.sources = model.sources
           /\ last.node_keep_mask # None => \A n \in DOMAIN last.node_keep_mask : last.node_keep_mask[n]
           /\ LET out == Layers(model, params, training,
                                EntityWeight(params, model.num_entities, model.embedding_dim), 0,
                                model.sources, model.targets, model.edge_types, last.edge_mask, None)
              IN last.status = out.status /\ last.x = out.x

C10_NullActivation ==
    (last.op = "__init__" /\ model.status = "ok" /\ last.args.activation_cls = NoneStr)
        => LET new_x == EntityWeight(0, model.num_entities, model.embedding_dim)
           IN \A i_layer \in 0..(model.num_layers - 1) : Activate(model, new_x, i_layer) = new_x

\* C11: in each iteration of the selector, the backward step marks every source of an edge
\* whose target was marked at the start of the iteration, and (undirected) the forward step
\* marks every target of an edge whose source is marked after the backward step, also for
\* a node that occurs several times among the sources (or targets).
C11_MarkingStep ==
    [][ /\ (sel.pc = "loop" /\ sel.i < sel.k)
            => \A e \in DOMAIN sel.sources :
                  sel.node_mask[sel.targets[e]] => sel'.node_mask[sel.sources[e]]
        /\ sel.pc = "forward"
            => \A e \in DOMAIN sel.targets :
                  sel.node_mask[sel.sources[e]] => sel'.node_mask[sel.targets[e]] ]_vars

\* C12: with batch normalization enabled (and bias thereby disabled), a call that
\* propagates completes and runs every layer 0..num_layers-1, for every num_layers.
C12_BatchNormCompletes ==
    (IsEnrich(last) /\ ~last.hit /\ model.use_batch_norm)
        => /\ ~model.use_bias
           /\ last.status = "ok"
           /\ last.layers = model.num_layers

\* the nodes that receive a message in a propagation over the given edges: the endpoints
\* of the edges that pass the edge mask (messages go in both directions)
Receivers(sources, targets, edge_mask) ==
    {sources[e] : e \in {e \in DOMAIN sources : edge_mask = None \/ edge_mask[e]}}
        \cup {targets[e] : e \in {e \in DOMAIN targets : edge_mask = None \/ edge_mask[e]}}

Normalized == model.status = "ok" /\ model.message_normalization # NoneStr

\* C13: under nonsymmetric and symmetric normalization every divisor of a message is at
\* least 1, for every relation and every filtered edge set; and in a call that propagates,
\* in every layer, a relation without matching edges adds nothing, a node that receives
\* no message has an all-zero accumulator row before the self-loop, and no error occurs.
C13_DivisorsPositive ==
    /\ Normalized
        => \A keep \in [DOMAIN model.sources -> BOOLEAN], r \in 0..(model.num_relations - 1) :
              \A c \in Divisors(model.sources, model.targets, model.edge_types, keep, r) : c >= 1
    /\ (Normalized /\ IsEnrich(last) /\ ~last.hit)
        => LET x == EntityWeight(last.version, model.num_entities, model.embedding_dim)
           IN /\ last.status = "ok"
              /\ \A r \in 0..(model.num_relations - 1) :
                    \A c \in Divisors(last.sources, last.targets, last.edge_types, last.edge_mask, r) : c >= 1
              /\ \A i_layer \in 0..(model.num_layers - 1) :
                    /\ \A r \in 0..(model.num_relations - 1) :
                          Divisors(last.sources, last.targets, last.edge_types, last.edge_mask, r) = {}
                            => \A n \in DOMAIN x :
                                  RelationMessages(model, last.version, x, i_layer, r, last.sources,
                                                   last.targets, last.edge_types, last.edge_mask)[n]
                                     = VecZero(model.embedding_dim)
                    /\ \A n \in DOMAIN x \ Receivers(last.sources, last.targets, last.edge_mask) :
                          AllMessages(model, last.version, x, i_layer, model.num_relations, last.sources,
                                      last.targets, last.edge_types, last.edge_mask)[n]
                             = VecZero(model.embedding_dim)

\* a normalized call on the fork graph whose edge mask leaves relation 1 without an edge
\* and node 2 without a message, while node 1 receives one
C13_Witness ==
    /\ Normalized
    /\ IsEnrich(last)
    /\ ~last.hit
    /\ last.status = "ok"
    /\ model.message_normalization = "symmetric"
    /\ model.num_relations = 2
    /\ Divisors(last.sources, last.targets, last.edge_types, last.edge_mask, 1) = {}
    /\ Divisors(last.sources, last.targets, last.edge_types, last.edge_mask, 0) # {}
    /\ 2 \notin Receivers(last.sources, last.targets, last.edge_mask)

\* a dropout rate above zero is configured
NonZeroDropout == model.edge_dropout > 0 \/ model.self_loop_dropout > 0

\* C14: what a full-graph call returns was computed under the mode of the call: in
\* evaluation mode it is the matrix of the propagation without dropout, and in training
\* mode with a non-zero dropout rate it was computed by this call with freshly drawn masks.
\* (Configurations with batch normalization, whose transform also depends on the mode,
\* are left aside: the statement is about dropout.)
C14_CacheMatchesMode ==
    /\ (FullOk(last) /\ ~training /\ ~model.use_batch_norm) => last.x = FullGraphOutput.x
    /\ (FullOk(last) /\ training /\ NonZeroDropout) => last.drew

====
